---- MODULE Spec2Model ----
(***************************************************************************)
(* Model of gdpr_validator.py: the POST /validate handler (request         *)
(* validation, prompt building, one call of the completion provider,       *)
(* extraction of a JSON object from the reply, default filling) and the    *)
(* GET /articles handler.                                                  *)
(*                                                                         *)
(* A text is a sequence of symbols.  In a text that json.loads reads, the  *)
(* structural characters of JSON ({ } [ ] : , the quote, the space) and    *)
(* the digits are symbols of their own; any other symbol stands for a run  *)
(* of characters none of which is structural (a word such as "status").    *)
(* A string constant of the program that is never parsed (a default, a     *)
(* piece of the prompt template, an error message) is one symbol.  A       *)
(* Python str is the sequence of its symbols; concatenation is \o, slicing *)
(* is SubSeq.  Escape sequences inside JSON strings are not modelled: no   *)
(* string holds a quote or a backslash.                                    *)
(***************************************************************************)
EXTENDS Integers, Sequences, FiniteSets, TLC

(***************************************************************************)
(* Python / JSON values, tagged so that values of different types are      *)
(* different: str (its symbols), int (its digits), the literals None,      *)
(* True, False, list (its items) and dict (a function from key to value).  *)
(***************************************************************************)
JStr(s) == [t |-> "str", v |-> s]
JNum(d) == [t |-> "num", v |-> d]
JLit(w) == [t |-> "lit", v |-> <<w>>]
JArr(xs) == [t |-> "arr", v |-> xs]
JObj(f) == [t |-> "obj", v |-> f]

None == JLit("null")
EmptyDict == [k \in {} |-> None]
EmptyList == JArr(<<>>)

QUOTE == "\""
Whitespace == {" "}
Digits == {"0", "7"}
Literals == {"null", "true", "false"}

(***************************************************************************)
(* json.loads.  Each parsing operator returns [ok, val, pos]: whether a    *)
(* value was read, the value, and the index of the first symbol after it.  *)
(* ok = FALSE stands for json.JSONDecodeError.                             *)
(***************************************************************************)
ParseFail == [ok |-> FALSE, val |-> None, pos |-> 0]
ParseOk(val, pos) == [ok |-> TRUE, val |-> val, pos |-> pos]

RECURSIVE SkipWs(_, _)
SkipWs(s, i) ==
    IF i <= Len(s) /\ s[i] \in Whitespace THEN SkipWs(s, i + 1) ELSE i

\* index of the closing quote of the string whose content starts at i, or 0
RECURSIVE StringEnd(_, _)
StringEnd(s, i) ==
    IF i > Len(s) THEN 0
    ELSE IF s[i] = QUOTE THEN i
    ELSE StringEnd(s, i + 1)

\* s[i] is the opening quote
ParseString(s, i) ==
    LET e == StringEnd(s, i + 1)
    IN  IF e = 0 THEN ParseFail
        ELSE ParseOk(JStr(SubSeq(s, i + 1, e - 1)), e + 1)

RECURSIVE DigitsEnd(_, _)
DigitsEnd(s, i) ==
    IF i <= Len(s) /\ s[i] \in Digits THEN DigitsEnd(s, i + 1) ELSE i

\* s[i] is a digit; a number that starts with 0 is the single digit 0
ParseNumber(s, i) ==
    LET e == IF s[i] = "0" THEN i + 1 ELSE DigitsEnd(s, i)
    IN  ParseOk(JNum(SubSeq(s, i, e - 1)), e)

\* a dict assignment d[k] = v: a repeated key keeps the last value
DictSet(d, k, v) == [x \in (DOMAIN d) \cup {k} |-> IF x = k THEN v ELSE d[x]]

RECURSIVE ParseValue(_, _)
RECURSIVE ParseMembers(_, _, _)
RECURSIVE ParseItems(_, _, _)

\* the value that starts exactly at i (the callers skip the whitespace)
ParseValue(s, i) ==
    IF i > Len(s) THEN ParseFail
    ELSE IF s[i] = QUOTE THEN ParseString(s, i)
    ELSE IF s[i] = "{" THEN
        LET j == SkipWs(s, i + 1)
        IN  IF j <= Len(s) /\ s[j] = "}" THEN ParseOk(JObj(EmptyDict), j + 1)
            ELSE ParseMembers(s, j, EmptyDict)
    ELSE IF s[i] = "[" THEN
        LET j == SkipWs(s, i + 1)
        IN  IF j <= Len(s) /\ s[j] = "]" THEN ParseOk(EmptyList, j + 1)
            ELSE ParseItems(s, j, <<>>)
    ELSE IF s[i] \in Digits THEN ParseNumber(s, i)
    ELSE IF s[i] \in Literals THEN ParseOk(JLit(s[i]), i + 1)
    ELSE ParseFail

\* the members of an object from i (whitespace skipped), acc the pairs so far
ParseMembers(s, i, acc) ==
    IF i > Len(s) \/ s[i] # QUOTE THEN ParseFail
    ELSE
        LET key == ParseString(s, i)
            c == SkipWs(s, key.pos)
        IN  IF ~key.ok \/ c > Len(s) \/ s[c] # ":" THEN ParseFail
            ELSE
                LET item == ParseValue(s, SkipWs(s, c + 1))
                    n == SkipWs(s, item.pos)
                    pairs == DictSet(acc, key.val.v, item.val)
                IN  IF ~item.ok \/ n > Len(s) THEN ParseFail
                    ELSE IF s[n] = "}" THEN ParseOk(JObj(pairs), n + 1)
                    ELSE IF s[n] = "," THEN ParseMembers(s, SkipWs(s, n + 1), pairs)
                    ELSE ParseFail

\* the items of an array from i (whitespace skipped), acc the items so far
ParseItems(s, i, acc) ==
    LET item == ParseValue(s, i)
        n == SkipWs(s, item.pos)
        items == Append(acc, item.val)
    IN  IF ~item.ok \/ n > Len(s) THEN ParseFail
        ELSE IF s[n] = "]" THEN ParseOk(JArr(items), n + 1)
        ELSE IF s[n] = "," THEN ParseItems(s, SkipWs(s, n + 1), items)
        ELSE ParseFail

\* json.loads(s): one value, whitespace around it, nothing else
json_loads(s) ==
    LET r == ParseValue(s, SkipWs(s, 1))
    IN  IF r.ok /\ SkipWs(s, r.pos) = Len(s) + 1 THEN r ELSE ParseFail

(***************************************************************************)
(* Python helpers the handler uses.                                        *)
(***************************************************************************)
\* bool(v), as all([...]) applies it
Truthy(v) ==
    CASE v.t = "str" -> v.v # <<>>
      [] v.t = "num" -> \E i \in 1..Len(v.v) : v.v[i] # "0"
      [] v.t = "lit" -> v = JLit("true")
      [] v.t = "arr" -> v.v # <<>>
      [] v.t = "obj" -> DOMAIN v.v # {}

\* str(v) of a scalar, as str.format substitutes it
PyStr(v) ==
    CASE v.t = "str" -> v.v
      [] v.t = "num" -> v.v
      [] v = JLit("null") -> <<"None">>
      [] v = JLit("true") -> <<"True">>
      [] v = JLit("false") -> <<"False">>

\* type(v).__name__
PyTypeName(v) ==
    CASE v.t = "str" -> "str"
      [] v.t = "num" -> "int"
      [] v = JLit("null") -> "NoneType"
      [] v.t = "lit" /\ v # JLit("null") -> "bool"
      [] v.t = "arr" -> "list"
      [] v.t = "obj" -> "dict"

\* d.get(k, default)
DictGet(d, k, default) == IF k \in DOMAIN d THEN d[k] ELSE default

\* a variant: the default replaces the value the dict has
SetDefaultOverwrite(d, k, v) == DictSet(d, k, v)

\* d.setdefault(k, v): an existing key keeps its value, whatever it is
SetDefault(d, k, v) == IF k \in DOMAIN d THEN d ELSE DictSet(d, k, v)

\* s.find(c) and s.rfind(c): 0-based index of the first / last c, -1 if none
find(s, c) ==
    IF \E i \in 1..Len(s) : s[i] = c
    THEN (CHOOSE i \in 1..Len(s) : s[i] = c /\ \A j \in 1..(i - 1) : s[j] # c) - 1
    ELSE -1

rfind(s, c) ==
    IF \E i \in 1..Len(s) : s[i] = c
    THEN (CHOOSE i \in 1..Len(s) : s[i] = c /\ \A j \in (i + 1)..Len(s) : s[j] # c) - 1
    ELSE -1

\* a variant: the slice stops one symbol early
SliceShort(s, start, end) == SubSeq(s, start + 1, end - 1)

\* s[start:end] for 0 <= start <= end
Slice(s, start, end) == SubSeq(s, start + 1, end)

(***************************************************************************)
(* The article catalog (a module-level dict keyed by str).                 *)
(***************************************************************************)
GDPR_ARTICLES ==
    [k \in {<<"15">>, <<"16">>, <<"17">>, <<"18">>, <<"19">>, <<"20">>} |->
        CASE k = <<"15">> -> JStr(<<"Right of Access - Subject has right to obtain confirmation of data processing and access to personal data">>)
          [] k = <<"16">> -> JStr(<<"Right to Rectification - Subject has right to correct inaccurate personal data">>)
          [] k = <<"17">> -> JStr(<<"Right to Erasure (Right to be Forgotten) - Subject has right to request deletion of personal data">>)
          [] k = <<"18">> -> JStr(<<"Right to Restriction of Processing - Subject has right to restrict processing under certain conditions">>)
          [] k = <<"19">> -> JStr(<<"Right to Data Portability - Subject has right to receive data in structured, machine-readable format">>)
          [] k = <<"20">> -> JStr(<<"Right to Object - Subject has right to object to processing for legitimate interests or direct marketing">>)]

UnknownArticle == JStr(<<"Unknown article">>)

\* a variant: articles.get(article), without the default
CatalogGetNoDefault(articles, article) ==
    IF article.t = "str" /\ article.v \in DOMAIN articles
    THEN articles[article.v]
    ELSE None

\* articles.get(article, 'Unknown article'): a str key is looked up by its
\* text, a key of another type equals no key of the dict
CatalogGet(articles, article) ==
    IF article.t = "str" /\ article.v \in DOMAIN articles
    THEN articles[article.v]
    ELSE UnknownArticle

(***************************************************************************)
(* Prompt builder: COMPLIANCE_PROMPT.format(...).  The constant pieces of  *)
(* the template between its slots are one symbol each.                     *)
(***************************************************************************)
TemplateHead == <<"You are a GDPR compliance expert. Analyze the following request/response scenario and validate compliance with GDPR Article ">>
TemplateArticle == <<".\n\nArticle ">>
TemplateContext == <<" Context: ">>
TemplateRequestType == <<"\n\nScenario:\nRequest Type: ">>
TemplateOrgResponse == <<"\nOrganization Response: ">>
TemplateResponseTime == <<"\nResponse Time: ">>
TemplateAdditional == <<" days\nAdditional Context: ">>
TemplateTail == <<"\n\nProvide a detailed compliance validation including: ... Format your response as JSON with keys: status, requirements_met, requirements_missed, recommendations, risk_level, explanation">>

COMPLIANCE_PROMPT(article, context, request_type, org_response, response_time, additional_context) ==
    TemplateHead \o PyStr(article)
    \o TemplateArticle \o PyStr(article)
    \o TemplateContext \o PyStr(context)
    \o TemplateRequestType \o PyStr(request_type)
    \o TemplateOrgResponse \o PyStr(org_response)
    \o TemplateResponseTime \o PyStr(response_time)
    \o TemplateAdditional \o PyStr(additional_context)
    \o TemplateTail

\* the five data.get(...) of the handler
FieldArticle(data) == DictGet(data, "article", None)
FieldRequestType(data) == DictGet(data, "request_type", None)
FieldOrgResponse(data) == DictGet(data, "org_response", None)
FieldResponseTime(data) == DictGet(data, "response_time", None)
FieldAdditionalContext(data) == DictGet(data, "additional_context", JStr(<<"None provided">>))

\* a variant: response_time is tested for truth like the other three
AllRequiredTruthy(data) ==
    /\ Truthy(FieldArticle(data))
    /\ Truthy(FieldRequestType(data))
    /\ Truthy(FieldOrgResponse(data))
    /\ Truthy(FieldResponseTime(data))

\* all([article, request_type, org_response, response_time is not None])
AllRequired(data) ==
    /\ Truthy(FieldArticle(data))
    /\ Truthy(FieldRequestType(data))
    /\ Truthy(FieldOrgResponse(data))
    /\ FieldResponseTime(data) # None

BuildPrompt(data, articles) ==
    COMPLIANCE_PROMPT(FieldArticle(data),
                      CatalogGet(articles, FieldArticle(data)),
                      FieldRequestType(data),
                      FieldOrgResponse(data),
                      FieldResponseTime(data),
                      FieldAdditionalContext(data))

(***************************************************************************)
(* Response normalizer: extraction of the JSON object, the fallback        *)
(* record, the field defaults.                                             *)
(***************************************************************************)
K_status == <<"status">>
K_requirements_met == <<"requirements_met">>
K_requirements_missed == <<"requirements_missed">>
K_recommendations == <<"recommendations">>
K_risk_level == <<"risk_level">>
K_explanation == <<"explanation">>

\* a variant: the slice runs from the first '{' to the end of the text
ExtractJsonToEnd(response_text) ==
    LET start == find(response_text, "{")
        end == rfind(response_text, "}") + 1
    IN  IF start # -1 /\ end > start
        THEN json_loads(Slice(response_text, start, Len(response_text)))
        ELSE json_loads(response_text)

\* a variant: the entire text is parsed first, the substring only if that fails
ExtractJsonWholeFirst(response_text) ==
    LET start == find(response_text, "{")
        end == rfind(response_text, "}") + 1
        whole == json_loads(response_text)
    IN  IF whole.ok THEN whole
        ELSE IF start # -1 /\ end > start
        THEN json_loads(Slice(response_text, start, end))
        ELSE whole

\* the try block: which text is handed to json.loads, and its result
ExtractJson(response_text) ==
    LET start == find(response_text, "{")
        end == rfind(response_text, "}") + 1
    IN  IF start # -1 /\ end > start
        THEN json_loads(Slice(response_text, start, end))
        ELSE json_loads(response_text)

\* a variant: the fallback record does not carry the raw text
FallbackNoText(response_text) ==
    (K_status :> JStr(<<"Analysis Complete">>))
    @@ (K_requirements_met :> EmptyList)
    @@ (K_requirements_missed :> EmptyList)
    @@ (K_recommendations :> EmptyList)
    @@ (K_risk_level :> JStr(<<"Medium">>))
    @@ (K_explanation :> JStr(<<"No explanation provided">>))

\* the except json.JSONDecodeError block
Fallback(response_text) ==
    (K_status :> JStr(<<"Analysis Complete">>))
    @@ (K_requirements_met :> EmptyList)
    @@ (K_requirements_missed :> EmptyList)
    @@ (K_recommendations :> EmptyList)
    @@ (K_risk_level :> JStr(<<"Medium">>))
    @@ (K_explanation :> JStr(response_text))

\* the six result.setdefault(...) in the order of the code
EnsureFields(result) ==
    LET r1 == SetDefault(result, K_status, JStr(<<"Unknown">>))
        r2 == SetDefault(r1, K_requirements_met, EmptyList)
        r3 == SetDefault(r2, K_requirements_missed, EmptyList)
        r4 == SetDefault(r3, K_recommendations, EmptyList)
        r5 == SetDefault(r4, K_risk_level, JStr(<<"Medium">>))
    IN  SetDefault(r5, K_explanation, JStr(<<"No explanation provided">>))

\* str(e) of the AttributeError that result.setdefault raises on a non-dict
NoSetDefault(v) == <<"'", PyTypeName(v), "' object has no attribute 'setdefault'">>

\* lines 458-486 as a whole: either the record handed to jsonify, or the
\* exception that leaves the try block
Normalize(response_text) ==
    LET parsed == ExtractJson(response_text)
    IN  IF ~parsed.ok
        THEN [raised |-> FALSE, outcome |-> "synthesized",
              result |-> EnsureFields(Fallback(response_text)), exc |-> <<>>]
        ELSE IF parsed.val.t # "obj"
        THEN [raised |-> TRUE, outcome |-> "parsed",
              result |-> EmptyDict, exc |-> NoSetDefault(parsed.val)]
        ELSE [raised |-> FALSE, outcome |-> "parsed",
              result |-> EnsureFields(parsed.val.v), exc |-> <<>>]

(***************************************************************************)
(* HTTP responses: status code, the error text of an error body, the       *)
(* record of a 200 body.                                                   *)
(***************************************************************************)
NoResponse == [code |-> 0, error |-> <<>>, result |-> EmptyDict]
MissingFields == [code |-> 400, error |-> <<"Missing required fields">>, result |-> EmptyDict]
ValidationError(msg) == [code |-> 500, error |-> <<"Validation error: ">> \o msg, result |-> EmptyDict]
Ok(result) == [code |-> 200, error |-> <<>>, result |-> result]

(***************************************************************************)
(* Inputs: request bodies and provider outcomes.                           *)
(***************************************************************************)
\* longest text over TextAlphabet the provider returns
MaxTextLen == 3

\* json.dumps of a value, with its default separators ", " and ": "; a dict
\* is given as the sequence of its <<key, value>> pairs in insertion order
RECURSIVE DumpsItems(_, _)
RECURSIVE DumpsValue(_)
DumpsItems(xs, i) ==
    IF i > Len(xs) THEN <<>>
    ELSE (IF i > 1 THEN <<",", " ">> ELSE <<>>) \o DumpsValue(xs[i]) \o DumpsItems(xs, i + 1)

DumpsValue(v) ==
    CASE v.t = "str" -> <<QUOTE>> \o v.v \o <<QUOTE>>
      [] v.t = "num" -> v.v
      [] v.t = "lit" -> v.v
      [] v.t = "arr" -> <<"[">> \o DumpsItems(v.v, 1) \o <<"]">>

RECURSIVE DumpsPairs(_, _)
DumpsPairs(pairs, i) ==
    IF i > Len(pairs) THEN <<>>
    ELSE (IF i > 1 THEN <<",", " ">> ELSE <<>>)
         \o <<QUOTE>> \o pairs[i][1] \o <<QUOTE, ":", " ">> \o DumpsValue(pairs[i][2])
         \o DumpsPairs(pairs, i + 1)

Dumps(pairs) == <<"{">> \o DumpsPairs(pairs, 1) \o <<"}">>

\* the dict a sequence of pairs with distinct keys builds
AsDict(pairs) ==
    [k \in {pairs[i][1] : i \in 1..Len(pairs)} |->
        pairs[CHOOSE i \in 1..Len(pairs) : pairs[i][1] = k][2]]

\* fully populated result objects: every one of the six fields, each with one
\* of two values (strings with structural characters in them included)
FullObjects ==
    { << <<K_status, st>>, <<K_requirements_met, met>>, <<K_requirements_missed, mis>>,
         <<K_recommendations, rec>>, <<K_risk_level, risk>>, <<K_explanation, ex>> >> :
        st \in {JStr(<<"Compliant">>), JStr(<<"Non-Compliant">>)},
        met \in {EmptyList, JArr(<<JStr(<<"Responded">>), JStr(<<"Free", " ", "of", " ", "charge">>)>>)},
        mis \in {EmptyList, JArr(<<JStr(<<"Late", " ", "{", "45", " ", "days", "}">>)>>)},
        rec \in {EmptyList, JArr(<<JStr(<<"Respond", " ", "within", " ", "[", "30", "]", " ", "days">>)>>)},
        risk \in {JStr(<<"High">>), JStr(<<"Low">>)},
        ex \in {JStr(<<>>), JStr(<<"Deadline", ":", " ", "missed", ",", " ", "see", " ", "Art.", "12", "}">>)} }

\* objects that lack some of the six fields, hold null or hold another key
PartialObjects ==
    { <<>>,
      << <<K_status, JStr(<<"Compliant">>)>> >>,
      << <<K_status, JStr(<<"Non-Compliant">>)>>, <<K_risk_level, JStr(<<"High">>)>> >>,
      << <<K_status, None>>, <<K_recommendations, JStr(<<"Reply">>)>> >>,
      << <<K_explanation, JStr(<<"Fine">>)>>, <<K_requirements_met, JArr(<<JNum(<<"7">>)>>)>>,
         <<<<"confidence">>, JNum(<<"7", "0">>)>> >> }

\* prose (and other text) around an object; some of it holds braces, some
\* makes the whole text a JSON array or a JSON string
Prefixes ==
    { <<>>,
      <<"Here", " ", "is", " ", "my", " ", "answer", ":", " ">>,
      <<"[">>,
      <<QUOTE>>,
      <<"Use", " ", "{", "json", "}", ":", " ">> }

Suffixes ==
    { <<>>,
      <<" ", " ", "Thanks.">>,
      <<"]">>,
      <<QUOTE>>,
      <<" ", "}">> }

TextAlphabet == {"{", "}", "[", "]", QUOTE, ",", "7", "a"}

ShortTexts == UNION {[1..n -> TextAlphabet] : n \in 0..MaxTextLen}

\* chat_completion.choices[0].message.content: what the provider can return
ReplyTexts ==
    ShortTexts
    \cup {Dumps(x) : x \in FullObjects}
    \cup {pre \o Dumps(x) \o post : pre \in Prefixes, x \in PartialObjects, post \in Suffixes}
    \cup { <<"I", " ", "think", " ", "this", " ", "is", " ", "compliant", " ", "overall.">>,
           <<"null">>, <<" ", "7", "7", " ">>,
           <<"[", QUOTE, "Compliant", QUOTE, ",", " ", "7", "]">>,
           <<"{", QUOTE, "status", QUOTE, ":", " ", QUOTE, "Compliant", QUOTE>>,
           <<"{", QUOTE, "status", QUOTE, ":", " ", "Compliant", "}">> }

\* str(e) of what client.chat.completions.create can raise
ProviderErrors == {<<"Connection error.">>, <<"Invalid API Key">>, <<"Rate limit reached">>}

\* the values a field of the request body takes; Absent: the key is not there
Absent == [t |-> "absent", v |-> <<>>]
ArticleValues == {Absent, None, JStr(<<>>), JStr(<<"15">>), JStr(<<"99">>), JNum(<<"7">>)}
RequestTypeValues == {Absent, JStr(<<>>), JStr(<<"access">>)}
OrgResponseValues == {Absent, JStr(<<>>), JStr(<<"We", " ", "sent", " ", "{", "data", "}">>)}
ResponseTimeValues == {Absent, None, JNum(<<"0">>), JNum(<<"7">>)}
AdditionalContextValues == {Absent, JStr(<<"Second", " ", "request">>)}

FieldNames == {"article", "request_type", "org_response", "response_time", "additional_context"}

\* request.json: a JSON object with some of the five fields
Body(a, r, o, t, c) ==
    LET all == [k \in FieldNames |->
                  CASE k = "article" -> a
                    [] k = "request_type" -> r
                    [] k = "org_response" -> o
                    [] k = "response_time" -> t
                    [] k = "additional_context" -> c]
    IN  [k \in {f \in FieldNames : all[f] # Absent} |-> all[k]]

RequestBodies ==
    {Body(a, r, o, t, c) : a \in ArticleValues, r \in RequestTypeValues,
                           o \in OrgResponseValues, t \in ResponseTimeValues,
                           c \in AdditionalContextValues}

(***************************************************************************)
(* The server.  route is the request in hand and pc the position of its    *)
(* handler; data, prompt and reply are the locals of the /validate         *)
(* handler; calls counts the calls of the completion provider made for the *)
(* request in hand; resp is the response the client receives; articles is  *)
(* the module-level catalog.  conc holds the same locals for each of the   *)
(* handlers that run at the same time under the threaded server (below).   *)
(***************************************************************************)
VARIABLES route, pc, data, prompt, reply, calls, resp, articles, conc

vars == <<route, pc, data, prompt, reply, calls, resp, articles>>

NoData == [k \in {} |-> None]
NoReply == [kind |-> "none", text |-> <<>>]

\* number of handlers that run at the same time
NumWorkers == 2
Workers == 1..NumWorkers

\* a thread of the server with no request in hand
IdleWorker ==
    [route |-> "none", pc |-> "idle", data |-> NoData, prompt |-> <<>>,
     reply |-> NoReply, calls |-> 0, resp |-> NoResponse]

Init ==
    /\ route = "none"
    /\ pc = "idle"
    /\ data = NoData
    /\ prompt = <<>>
    /\ reply = NoReply
    /\ calls = 0
    /\ resp = NoResponse
    /\ articles = GDPR_ARTICLES
    /\ conc = [w \in Workers |-> IdleWorker]

\* POST /validate arrives: data = request.json
Receive ==
    /\ pc = "idle"
    /\ route' = "/validate"
    /\ \E body \in RequestBodies : data' = body
    /\ pc' = "validate"
    /\ UNCHANGED <<prompt, reply, calls, resp, articles, conc>>

\* the required-fields check and the 400 it returns
Validate ==
    /\ pc = "validate"
    /\ IF AllRequired(data)
       THEN /\ pc' = "build"
            /\ resp' = resp
       ELSE /\ pc' = "done"
            /\ resp' = MissingFields
    /\ UNCHANGED <<route, data, prompt, reply, calls, articles, conc>>

\* prompt = COMPLIANCE_PROMPT.format(...)
Build ==
    /\ pc = "build"
    /\ prompt' = BuildPrompt(data, articles)
    /\ pc' = "call"
    /\ UNCHANGED <<route, data, reply, calls, resp, articles, conc>>

\* client.chat.completions.create(...) returns a text
CallReturns ==
    /\ pc = "call"
    /\ \E text \in ReplyTexts : reply' = [kind |-> "text", text |-> text]
    /\ calls' = calls + 1
    /\ pc' = "normalize"
    /\ UNCHANGED <<route, data, prompt, resp, articles, conc>>

\* a variant: no except block, the framework answers for the handler
CallRaisesUncaught ==
    /\ pc = "call"
    /\ \E msg \in ProviderErrors :
          /\ reply' = [kind |-> "raise", text |-> msg]
          /\ resp' = [code |-> 500, error |-> <<"Internal Server Error">>, result |-> EmptyDict]
    /\ calls' = calls + 1
    /\ pc' = "done"
    /\ UNCHANGED <<route, data, prompt, articles, conc>>

\* client.chat.completions.create(...) raises: the except Exception block
CallRaises ==
    /\ pc = "call"
    /\ \E msg \in ProviderErrors :
          /\ reply' = [kind |-> "raise", text |-> msg]
          /\ resp' = ValidationError(msg)
    /\ calls' = calls + 1
    /\ pc' = "done"
    /\ UNCHANGED <<route, data, prompt, articles, conc>>

\* a variant: a reply that does not parse is asked for once more
NormalizeReplyRetry ==
    /\ pc = "normalize"
    /\ LET n == Normalize(reply.text)
       IN  IF n.outcome = "synthesized" /\ calls < 2
           THEN /\ pc' = "call"
                /\ resp' = resp
           ELSE /\ pc' = "done"
                /\ resp' = IF n.raised THEN ValidationError(n.exc) ELSE Ok(n.result)
    /\ UNCHANGED <<route, data, prompt, reply, calls, articles, conc>>

\* extraction, fallback, defaults, jsonify; or the except Exception block
NormalizeReply ==
    /\ pc = "normalize"
    /\ LET n == Normalize(reply.text)
       IN  resp' = IF n.raised THEN ValidationError(n.exc) ELSE Ok(n.result)
    /\ pc' = "done"
    /\ UNCHANGED <<route, data, prompt, reply, calls, articles, conc>>

\* the handler returns: the response is sent and the locals are gone
Return ==
    /\ pc = "done"
    /\ route' = "none"
    /\ pc' = "idle"
    /\ data' = NoData
    /\ prompt' = <<>>
    /\ reply' = NoReply
    /\ calls' = 0
    /\ resp' = NoResponse
    /\ UNCHANGED <<articles, conc>>

\* GET /articles: jsonify(GDPR_ARTICLES)
GetArticles ==
    /\ pc = "idle"
    /\ route' = "/articles"
    /\ pc' = "done"
    /\ resp' = Ok(articles)
    /\ UNCHANGED <<data, prompt, reply, calls, articles, conc>>

Next ==
    \/ Receive
    \/ Validate
    \/ Build
    \/ CallReturns
    \/ CallRaises
    \/ NormalizeReply
    \/ Return
    \/ GetArticles

Spec == Init /\ [][Next]_<<vars, conc>>

(***************************************************************************)
(* The threaded server (app.run): NumWorkers handlers whose steps          *)
(* interleave.  Each has its own locals; GDPR_ARTICLES is the one object   *)
(* they share.  The steps are those of the handler above.                  *)
(***************************************************************************)
\* request bodies and provider replies of the concurrent handlers
ConcBodies ==
    { Body(JStr(<<"15">>), JStr(<<"access">>), JStr(<<"We", " ", "sent", " ", "{", "data", "}">>), JNum(<<"0">>), Absent),
      Body(JStr(<<"99">>), JStr(<<"access">>), JStr(<<"We", " ", "sent", " ", "{", "data", "}">>), JNum(<<"7">>), JStr(<<"Second", " ", "request">>)),
      Body(JStr(<<"15">>), JStr(<<"access">>), Absent, JNum(<<"7">>), Absent) }

ConcReplies ==
    { Dumps(<< <<K_status, JStr(<<"Non-Compliant">>)>>, <<K_risk_level, JStr(<<"High">>)>> >>),
      <<"I", " ", "think", " ", "this", " ", "is", " ", "compliant", " ", "overall.">>,
      <<"[", "{", "}", "]">>,
      <<"[", "7", "]">> }

ConcErrors == {<<"Rate limit reached">>}

WReceive(w) ==
    /\ conc[w].pc = "idle"
    /\ \E body \in ConcBodies :
          conc' = [conc EXCEPT ![w].route = "/validate", ![w].data = body,
                               ![w].pc = "validate"]
    /\ UNCHANGED vars

WValidate(w) ==
    /\ conc[w].pc = "validate"
    /\ conc' = IF AllRequired(conc[w].data)
               THEN [conc EXCEPT ![w].pc = "build"]
               ELSE [conc EXCEPT ![w].pc = "done", ![w].resp = MissingFields]
    /\ UNCHANGED vars

\* a variant: the lookup is GDPR_ARTICLES.setdefault(article, 'Unknown
\* article'), which stores the placeholder in the shared catalog
WBuildSetDefault(w) ==
    /\ conc[w].pc = "build"
    /\ conc' = [conc EXCEPT ![w].prompt = BuildPrompt(conc[w].data, articles),
                            ![w].pc = "call"]
    /\ articles' = LET a == FieldArticle(conc[w].data)
                   IN  IF a.t = "str" THEN SetDefault(articles, a.v, UnknownArticle)
                       ELSE articles
    /\ UNCHANGED <<route, pc, data, prompt, reply, calls, resp>>

WBuild(w) ==
    /\ conc[w].pc = "build"
    /\ conc' = [conc EXCEPT ![w].prompt = BuildPrompt(conc[w].data, articles),
                            ![w].pc = "call"]
    /\ UNCHANGED vars

WCallReturns(w) ==
    /\ conc[w].pc = "call"
    /\ \E text \in ConcReplies :
          conc' = [conc EXCEPT ![w].reply = [kind |-> "text", text |-> text],
                               ![w].calls = @ + 1, ![w].pc = "normalize"]
    /\ UNCHANGED vars

WCallRaises(w) ==
    /\ conc[w].pc = "call"
    /\ \E msg \in ConcErrors :
          conc' = [conc EXCEPT ![w].reply = [kind |-> "raise", text |-> msg],
                               ![w].resp = ValidationError(msg),
                               ![w].calls = @ + 1, ![w].pc = "done"]
    /\ UNCHANGED vars

WNormalizeReply(w) ==
    /\ conc[w].pc = "normalize"
    /\ LET n == Normalize(conc[w].reply.text)
       IN  conc' = [conc EXCEPT
                      ![w].resp = IF n.raised THEN ValidationError(n.exc) ELSE Ok(n.result),
                      ![w].pc = "done"]
    /\ UNCHANGED vars

WReturn(w) ==
    /\ conc[w].pc = "done"
    /\ conc' = [conc EXCEPT ![w] = IdleWorker]
    /\ UNCHANGED vars

WGetArticles(w) ==
    /\ conc[w].pc = "idle"
    /\ conc' = [conc EXCEPT ![w].route = "/articles", ![w].pc = "done",
                            ![w].resp = Ok(articles)]
    /\ UNCHANGED vars

NextC ==
    \/ \E w \in Workers : WReceive(w)
    \/ \E w \in Workers : WValidate(w)
    \/ \E w \in Workers : WBuild(w)
    \/ \E w \in Workers : WCallReturns(w)
    \/ \E w \in Workers : WCallRaises(w)
    \/ \E w \in Workers : WNormalizeReply(w)
    \/ \E w \in Workers : WReturn(w)
    \/ \E w \in Workers : WGetArticles(w)

SpecC == Init /\ [][NextC]_<<vars, conc>>

(***************************************************************************)
(* Properties.                                                             *)
(***************************************************************************)
RequiredFields == {"article", "request_type", "org_response", "response_time"}
SixFields == {K_status, K_requirements_met, K_requirements_missed,
              K_recommendations, K_risk_level, K_explanation}

\* the /validate handler has produced its response
Answered == route = "/validate" /\ pc = "done"
\* ... for a request whose provider call returned a text
AnsweredText == Answered /\ reply.kind = "text"

\* the field is in the body with a text of at least one symbol
PresentText(d, f) == f \in DOMAIN d /\ d[f].t = "str" /\ d[f].v # <<>>

\* the documented default of each of the six fields
DefaultOf(k) ==
    CASE k = K_status -> JStr(<<"Unknown">>)
      [] k = K_requirements_met -> JArr(<<>>)
      [] k = K_requirements_missed -> JArr(<<>>)
      [] k = K_recommendations -> JArr(<<>>)
      [] k = K_risk_level -> JStr(<<"Medium">>)
      [] k = K_explanation -> JStr(<<"No explanation provided">>)

\* object o with each absent one of the six fields at its default
Filled(o) == [k \in (DOMAIN o) \cup SixFields |-> IF k \in DOMAIN o THEN o[k] ELSE DefaultOf(k)]

\* the record synthesized from a raw text
Synthesized(text) ==
    [k \in SixFields |->
        CASE k = K_status -> JStr(<<"Analysis Complete">>)
          [] k = K_requirements_met -> JArr(<<>>)
          [] k = K_requirements_missed -> JArr(<<>>)
          [] k = K_recommendations -> JArr(<<>>)
          [] k = K_risk_level -> JStr(<<"Medium">>)
          [] k = K_explanation -> JStr(text)]

\* positions of the braces of a text, and its first-'{'-to-last-'}' substring
OpenAt(text) == {i \in 1..Len(text) : text[i] = "{"}
CloseAt(text) == {i \in 1..Len(text) : text[i] = "}"}
FirstOpen(text) == CHOOSE i \in OpenAt(text) : \A j \in OpenAt(text) : i <= j
LastClose(text) == CHOOSE i \in CloseAt(text) : \A j \in CloseAt(text) : j <= i
HasBraceSubstring(text) ==
    OpenAt(text) # {} /\ CloseAt(text) # {} /\ FirstOpen(text) < LastClose(text)
BraceSubstring(text) == SubSeq(text, FirstOpen(text), LastClose(text))

\* C1: POST /validate answers 400 "Missing required fields" whenever one of
\* article, request_type, org_response, response_time is absent from the
\* body; response_time = 0 counts as present: with it and the other three
\* fields present (as non-empty text) the request is not rejected as missing
\* fields.
C1_MissingFields ==
    Answered =>
        /\ (\E f \in RequiredFields : f \notin DOMAIN data) => resp = MissingFields
        /\ ( /\ PresentText(data, "article")
             /\ PresentText(data, "request_type")
             /\ PresentText(data, "org_response")
             /\ "response_time" \in DOMAIN data
             /\ data["response_time"] = JNum(<<"0">>) ) => resp.code # 400

C1_Witness ==
    /\ Answered
    /\ RequiredFields \subseteq DOMAIN data
    /\ data["response_time"] = JNum(<<"0">>)
    /\ PresentText(data, "article")
    /\ resp.code = 200

\* C2 (as claimed): whatever text the provider returns to an accepted
\* request, the answer is 200 with a record, never an error response.
C2_NeverError == AnsweredText => resp.code = 200

\* C3: when neither the whole text nor its brace-delimited substring parses
\* as JSON (a text without braces included), the answer is exactly the
\* synthesized record: status "Analysis Complete", the three lists empty,
\* risk_level "Medium", explanation the entire raw text.
C3_Synthesized ==
    ( /\ AnsweredText
      /\ ~json_loads(reply.text).ok
      /\ ~(HasBraceSubstring(reply.text) /\ json_loads(BraceSubstring(reply.text)).ok) )
    => resp = [code |-> 200, error |-> <<>>, result |-> Synthesized(reply.text)]

C3_Witness ==
    /\ AnsweredText
    /\ OpenAt(reply.text) = {} /\ CloseAt(reply.text) = {}
    /\ Len(reply.text) >= 2
    /\ resp.code = 200
    /\ resp.result[K_explanation] = JStr(reply.text)
    /\ resp.result[K_status] = JStr(<<"Analysis Complete">>)

\* C4: every 200 answer of /validate holds all six fields; a field the parsed
\* object has keeps its parsed value, and each absent field has its own
\* default, whatever the other fields are.
C4_AllSixFields ==
    (Answered /\ resp.code = 200) =>
        /\ SixFields \subseteq DOMAIN resp.result
        /\ LET parsed == ExtractJson(reply.text)
           IN  (parsed.ok /\ parsed.val.t = "obj") =>
                  /\ DOMAIN resp.result = (DOMAIN parsed.val.v) \cup SixFields
                  /\ \A k \in DOMAIN resp.result :
                        resp.result[k] = IF k \in DOMAIN parsed.val.v
                                         THEN parsed.val.v[k]
                                         ELSE DefaultOf(k)

C4_Witness ==
    /\ Answered
    /\ resp.code = 200
    /\ LET parsed == ExtractJson(reply.text)
       IN  /\ parsed.ok /\ parsed.val.t = "obj"
           /\ DOMAIN parsed.val.v = {K_status, K_recommendations}
           /\ resp.result[K_status] = None
           /\ resp.result[K_risk_level] = JStr(<<"Medium">>)
           /\ resp.result[K_explanation] = JStr(<<"No explanation provided">>)

\* C5: round trip: when the provider text is the JSON serialization of a
\* fully populated result object X, the record answered is exactly X.
C5_RoundTrip ==
    AnsweredText =>
        \A x \in FullObjects :
            reply.text = Dumps(x) =>
                resp = [code |-> 200, error |-> <<>>, result |-> AsDict(x)]

C5_Witness ==
    /\ AnsweredText
    /\ \E x \in FullObjects :
          /\ reply.text = Dumps(x)
          /\ AsDict(x)[K_requirements_missed] # JArr(<<>>)
          /\ AsDict(x)[K_explanation] # JStr(<<>>)
          /\ resp.result = AsDict(x)

\* C6: when the first-'{'-to-last-'}' substring of the provider text is a
\* JSON object, the answer is 200 with that object's fields and the other
\* fields at their defaults; the text before the first '{' and after the last
\* '}' has no effect on it.
C6_BraceExtraction ==
    ( /\ AnsweredText
      /\ HasBraceSubstring(reply.text)
      /\ json_loads(BraceSubstring(reply.text)).ok )
    => resp = [code |-> 200, error |-> <<>>,
               result |-> Filled(json_loads(BraceSubstring(reply.text)).val.v)]

C6_Witness ==
    /\ AnsweredText
    /\ HasBraceSubstring(reply.text)
    /\ FirstOpen(reply.text) > 1
    /\ LastClose(reply.text) < Len(reply.text)
    /\ reply.text[1] = "Here"
    /\ reply.text[Len(reply.text)] = "Thanks."
    /\ resp.code = 200
    /\ resp.result[K_status] = JStr(<<"Non-Compliant">>)
    /\ resp.result[K_risk_level] = JStr(<<"High">>)
    /\ resp.result[K_explanation] = JStr(<<"No explanation provided">>)

\* C7 (as claimed): the entire text is parsed first, so for every text that
\* is valid JSON as a whole the answer comes from the parse of the whole text:
\* the filled object when the whole text is an object, and no record taken
\* from a substring when it is not.
C7_WholeTextFirst ==
    (AnsweredText /\ json_loads(reply.text).ok) =>
        IF json_loads(reply.text).val.t = "obj"
        THEN resp = [code |-> 200, error |-> <<>>,
                     result |-> Filled(json_loads(reply.text).val.v)]
        ELSE resp.code # 200

\* C7 (amended): when the text has a '{' with a '}' after it, only the
\* first-'{'-to-last-'}' substring is parsed (and a failure of that parse
\* goes to the synthesized record without a parse of the entire text); the
\* entire text is parsed only when there is no such substring.  For a text
\* that is a JSON object as a whole the two coincide.
C7_SubstringFirst ==
    AnsweredText =>
        LET text == reply.text
            whole == json_loads(text)
        IN  /\ HasBraceSubstring(text) =>
                 /\ resp.code = 200
                 /\ resp.result =
                      IF json_loads(BraceSubstring(text)).ok
                      THEN Filled(json_loads(BraceSubstring(text)).val.v)
                      ELSE Synthesized(text)
            /\ (~HasBraceSubstring(text) /\ ~whole.ok) =>
                 resp = [code |-> 200, error |-> <<>>, result |-> Synthesized(text)]
            /\ (whole.ok /\ whole.val.t = "obj") =>
                 resp = [code |-> 200, error |-> <<>>, result |-> Filled(whole.val.v)]

\* the whole text is valid JSON but not an object, and the answer is the
\* record of the object inside it
C7_Witness ==
    /\ AnsweredText
    /\ json_loads(reply.text).ok
    /\ json_loads(reply.text).val.t = "arr"
    /\ HasBraceSubstring(reply.text)
    /\ resp.code = 200
    /\ resp.result[K_status] = JStr(<<"Compliant">>)

\* C8: when the provider call raises, the answer is 500 with the error text
\* "Validation error: <exception text>"; the handler returns, and the server
\* is then in the state it was in before the request, so that later requests
\* are served as if the failed one had not happened.
C8_ProviderFailure ==
    /\ (Answered /\ reply.kind = "raise") =>
          /\ resp = [code |-> 500, error |-> <<"Validation error: ">> \o reply.text,
                     result |-> EmptyDict]
          /\ reply.text \in ProviderErrors
          /\ ENABLED Return
    /\ pc = "idle" =>
          /\ route = "none" /\ data = NoData /\ prompt = <<>> /\ reply = NoReply
          /\ calls = 0 /\ resp = NoResponse /\ articles = GDPR_ARTICLES
          /\ ENABLED Receive

C8_Witness ==
    /\ Answered
    /\ reply.kind = "raise"
    /\ resp.code = 500
    /\ resp.error = <<"Validation error: ", "Rate limit reached">>

\* s holds sub as a contiguous part
Contains(s, sub) ==
    \E i \in 1..(Len(s) - Len(sub) + 1) : SubSeq(s, i, i + Len(sub) - 1) = sub

\* the /validate handler has built its prompt
PromptBuilt ==
    /\ route = "/validate"
    /\ pc \in {"call", "normalize"} \/ (pc = "done" /\ resp.code # 400)

\* C9: the prompt holds the request's article, request_type, org_response,
\* response_time and additional_context literally, each in its slot, with
\* the catalog description when the article id is a catalog id and
\* "Unknown article" otherwise; an id that is not in the catalog does not
\* stop the prompt from being built.
C9_Prompt ==
    /\ PromptBuilt =>
          /\ Contains(prompt, TemplateHead \o data["article"].v \o TemplateArticle
                \o data["article"].v \o TemplateContext
                \o (IF data["article"].t = "str" /\ data["article"].v \in DOMAIN GDPR_ARTICLES
                    THEN GDPR_ARTICLES[data["article"].v].v
                    ELSE <<"Unknown article">>))
          /\ Contains(prompt, TemplateRequestType \o data["request_type"].v)
          /\ Contains(prompt, TemplateOrgResponse \o data["org_response"].v)
          /\ Contains(prompt, TemplateResponseTime \o data["response_time"].v \o TemplateAdditional)
          /\ "additional_context" \in DOMAIN data =>
                Contains(prompt, TemplateAdditional \o data["additional_context"].v \o TemplateTail)
    /\ (route = "/validate" /\ pc = "build") => ENABLED Build

C9_Witness ==
    /\ PromptBuilt
    /\ pc = "done"
    /\ resp.code = 200
    /\ data["article"] = JStr(<<"99">>)
    /\ "additional_context" \in DOMAIN data
    /\ Contains(prompt, <<"Unknown article">>)
    /\ Contains(prompt, <<"We", " ", "sent", " ", "{", "data", "}">>)

\* C10: a /validate request calls the completion provider at most once: not
\* before validation has passed, exactly once for an accepted request, never
\* for a request answered 400, and no second time after a failed or
\* unparseable reply.
C10_OneCall ==
    /\ calls \in {0, 1}
    /\ pc \in {"idle", "validate", "build", "call"} => calls = 0
    /\ pc = "normalize" => calls = 1
    /\ Answered => calls = (IF resp.code = 400 THEN 0 ELSE 1)
    /\ route = "/articles" => calls = 0

C10_Witness ==
    /\ AnsweredText
    /\ calls = 1
    /\ ~ExtractJson(reply.text).ok
    /\ resp.code = 200

\* the handler of worker w has produced the response of a /validate request
AnsweredBy(w) == conc[w].route = "/validate" /\ conc[w].pc = "done"

\* C11: under any interleaving of /validate and /articles requests the
\* catalog is never modified and GET /articles answers the same six-entry
\* mapping; a step of one request changes nothing but that request's own
\* locals; and two /validate requests with the same body and the same
\* provider reply get the same response, whatever ran before or beside them.
C11_NoSharedState ==
    /\ [](/\ articles = GDPR_ARTICLES
          /\ Cardinality(DOMAIN articles) = 6
          /\ \A w \in Workers :
                (conc[w].route = "/articles" /\ conc[w].pc = "done") =>
                    conc[w].resp = [code |-> 200, error |-> <<>>, result |-> GDPR_ARTICLES]
          /\ \A w1, w2 \in Workers :
                ( /\ AnsweredBy(w1) /\ AnsweredBy(w2)
                  /\ conc[w1].data = conc[w2].data
                  /\ conc[w1].reply = conc[w2].reply )
                => conc[w1].resp = conc[w2].resp)
    /\ [][ /\ articles' = articles
           /\ \E w \in Workers : \A v \in Workers \ {w} : conc'[v] = conc[v] ]_<<vars, conc>>

\* two requests with the same body and reply are answered alike while a
\* third party could read the catalog: both handlers have run side by side
C11_Witness ==
    \E w1, w2 \in Workers :
        /\ w1 # w2
        /\ AnsweredBy(w1) /\ AnsweredBy(w2)
        /\ conc[w1].data = conc[w2].data
        /\ conc[w1].reply = conc[w2].reply
        /\ conc[w1].reply.kind = "text"
        /\ FieldArticle(conc[w1].data) = JStr(<<"99">>)
        /\ conc[w1].resp.code = 200
        /\ conc[w1].resp = conc[w2].resp

====
